---- MODULE Spec2Model ----
(***************************************************************************)
(* camera-file-sorting, src/main.py: the date prompt (parse_date_input),   *)
(* the identity race (find_first_camera_model_in_parallel), the planning   *)
(* steps of main with the date filter of the second walk, and the transfer *)
(* stage (process_file under a ThreadPoolExecutor, aggregated by main's    *)
(* as_completed loop).                                                     *)
(*                                                                         *)
(* Text is a sequence of one-character strings; a path is a sequence of    *)
(* components, each component a text.  Fixed folder names that the code    *)
(* never inspects character by character are written as one token.         *)
(***************************************************************************)
EXTENDS Integers, Sequences, FiniteSets, TLC

\* the largest number of files in the source tree
MaxFiles == 2
\* os.cpu_count() of the host
CpuCount == 2

---------------------------------------------------------------------------
\* Python values

PyNone == [t |-> "None"]
PyStr(s) == [t |-> "str", v |-> s]
PyInt(n) == [t |-> "int", v |-> n]
\* a timestamp text, kept as its layout and the calendar day it denotes
PyDateText(l, d) == [t |-> "str", layout |-> l, day |-> d]
PyDateTime(d) == [t |-> "datetime", day |-> d]
\* a datetime.date, kept as <<year, month, day>>
PyDate(ymd) == [t |-> "date", ymd |-> ymd]

\* bool(x)
Truthy(x) ==
    CASE x.t = "None" -> FALSE
      [] x.t = "int" -> x.v # 0
      [] x.t = "str" -> IF "v" \in DOMAIN x THEN x.v # <<>> ELSE TRUE
      [] OTHER -> TRUE

---------------------------------------------------------------------------
\* str methods, on texts

IsSpace(c) == c \in {" ", "\t", "\n"}

RECURSIVE LStrip(_)
LStrip(s) == IF s # <<>> /\ IsSpace(Head(s)) THEN LStrip(Tail(s)) ELSE s

RECURSIVE RStrip(_)
RStrip(s) ==
    IF s # <<>> /\ IsSpace(s[Len(s)]) THEN RStrip(SubSeq(s, 1, Len(s) - 1)) ELSE s

\* str.strip()
Strip(s) == RStrip(LStrip(s))

\* str.replace(old, new) for one-character old and new
Replace(s, old, new) == [i \in 1..Len(s) |-> IF s[i] = old THEN new ELSE s[i]]

Uppers == <<"A", "B", "C", "D", "E", "F", "G", "H", "I", "J", "K", "L", "M",
            "N", "O", "P", "Q", "R", "S", "T", "U", "V", "W", "X", "Y", "Z">>
Lowers == <<"a", "b", "c", "d", "e", "f", "g", "h", "i", "j", "k", "l", "m",
            "n", "o", "p", "q", "r", "s", "t", "u", "v", "w", "x", "y", "z">>

LowerChar(c) ==
    IF \E i \in 1..Len(Uppers) : Uppers[i] = c
    THEN Lowers[CHOOSE i \in 1..Len(Uppers) : Uppers[i] = c]
    ELSE c

UpperChar(c) ==
    IF \E i \in 1..Len(Lowers) : Lowers[i] = c
    THEN Uppers[CHOOSE i \in 1..Len(Lowers) : Lowers[i] = c]
    ELSE c

\* str.lower(), str.upper()
Lower(s) == [i \in 1..Len(s) |-> LowerChar(s[i])]
Upper(s) == [i \in 1..Len(s) |-> UpperChar(s[i])]

\* str.startswith(c) for a one-character prefix
StartsWith(s, c) == s # <<>> /\ s[1] = c

\* str.rfind('.') as a 1-based index, 0 when there is no dot
LastDot(s) ==
    LET dots == {i \in 1..Len(s) : s[i] = "."}
    IN  IF dots = {} THEN 0 ELSE CHOOSE i \in dots : \A j \in dots : j <= i

\* os.path.splitext(name)[1]: the text from the last dot on, empty when the
\* name has no dot or only leading dots before it
SplitExt(s) ==
    LET d == LastDot(s)
    IN  IF d > 0 /\ \E i \in 1..(d - 1) : s[i] # "."
        THEN SubSeq(s, d, Len(s))
        ELSE <<>>

\* c in s, for a one-character c
Contains(s, c) == \E i \in 1..Len(s) : s[i] = c

\* str.find(sub) as a 1-based index, 0 when sub does not occur
Find(s, sub) ==
    LET at == {i \in 1..(Len(s) - Len(sub) + 1) :
                 SubSeq(s, i, i + Len(sub) - 1) = sub}
    IN  IF at = {} THEN 0 ELSE CHOOSE i \in at : \A j \in at : i <= j

\* str.split(sep): the list of the texts between the occurrences of sep
RECURSIVE Split(_, _)
Split(s, sep) ==
    LET i == Find(s, sep)
    IN  IF i = 0
        THEN <<s>>
        ELSE <<SubSeq(s, 1, i - 1)>> \o Split(SubSeq(s, i + Len(sep), Len(s)), sep)

---------------------------------------------------------------------------
\* datetime.datetime.strptime(text, "%d/%m/%Y").date()

DigitChars == <<"0", "1", "2", "3", "4", "5", "6", "7", "8", "9">>
IsDigit(c) == \E i \in 1..Len(DigitChars) : DigitChars[i] = c
DigitValue(c) == (CHOOSE i \in 1..Len(DigitChars) : DigitChars[i] = c) - 1
AllDigits(s) == \A i \in 1..Len(s) : IsDigit(s[i])

\* int(s) of a text of digits
RECURSIVE Number(_)
Number(s) ==
    IF s = <<>> THEN 0
    ELSE 10 * Number(SubSeq(s, 1, Len(s) - 1)) + DigitValue(s[Len(s)])

\* _strptime's patterns: %d is 3[0-1]|[1-2]\d|0[1-9]|[1-9] (its " [1-9]"
\* needs a leading space, which the strip() of lines 131, 132, 134 removes),
\* %m is 1[0-2]|0[1-9]|[1-9], %Y is \d\d\d\d
DayField(s) ==
    /\ Len(s) \in {1, 2} /\ AllDigits(s)
    /\ Number(s) \in 1..31
MonthField(s) ==
    /\ Len(s) \in {1, 2} /\ AllDigits(s)
    /\ Number(s) \in 1..12
YearField(s) == Len(s) = 4 /\ AllDigits(s)

IsLeap(y) == (y % 4 = 0 /\ y % 100 # 0) \/ y % 400 = 0
DaysInMonth(y, m) ==
    IF m = 2 THEN (IF IsLeap(y) THEN 29 ELSE 28)
    ELSE IF m \in {4, 6, 9, 11} THEN 30 ELSE 31

Returned(v) == [kind |-> "returned", value |-> v]
Raised(e) == [kind |-> "raised", exc |-> e]

\* the date, or the ValueError of a text that does not match the format, of
\* a year 0 or of a day the month does not have
StrptimeDate(s) ==
    LET f == Split(s, <<"/">>)
    IN  IF /\ Len(f) = 3
           /\ DayField(f[1]) /\ MonthField(f[2]) /\ YearField(f[3])
           /\ Number(f[3]) >= 1
           /\ Number(f[1]) <= DaysInMonth(Number(f[3]), Number(f[2]))
        THEN Returned(PyDate(<<Number(f[3]), Number(f[2]), Number(f[1])>>))
        ELSE Raised("ValueError")

\* date1 <= date2
DateLE(a, b) ==
    \/ a.ymd[1] < b.ymd[1]
    \/ a.ymd[1] = b.ymd[1] /\ a.ymd[2] < b.ymd[2]
    \/ a.ymd[1] = b.ymd[1] /\ a.ymd[2] = b.ymd[2] /\ a.ymd[3] <= b.ymd[3]

---------------------------------------------------------------------------
\* parse_date_input, lines 119-139

\* the en dash and the em dash of line 126, one character each
EnDash == "[en dash]"
EmDash == "[em dash]"

NoWindow == <<PyNone, PyNone>>

\* mutation for C18: a range whose second part does not parse keeps its start
parse_date_input_KeepsStart(date_input) ==
    IF Contains(date_input, "-")
    THEN LET replaced == Replace(Replace(date_input, EnDash, "-"), EmDash, "-")
             parts == IF Find(replaced, <<" ", "-", " ">>) # 0
                      THEN Split(replaced, <<" ", "-", " ">>)
                      ELSE Split(replaced, <<"-">>)
         IN  IF Len(parts) # 2 THEN NoWindow
             ELSE LET start_date == StrptimeDate(Strip(parts[1]))
                      end_date == StrptimeDate(Strip(parts[2]))
                  IN  IF start_date.kind = "raised" THEN NoWindow
                      ELSE IF end_date.kind = "raised"
                      THEN <<start_date.value, PyNone>>
                      ELSE <<start_date.value, end_date.value>>
    ELSE LET single_date == StrptimeDate(Strip(date_input))
         IN  IF single_date.kind = "raised" THEN NoWindow
             ELSE <<single_date.value, single_date.value>>

\* parse_date_input(date_input): (start_date, end_date), or (None, None) when
\* line 129 or a strptime raised.  Line 125 looks for the ASCII hyphen in the
\* text as it was typed; the dashes are replaced inside that branch only.
parse_date_input(date_input) ==
    IF Contains(date_input, "-")
    THEN LET replaced == Replace(Replace(date_input, EnDash, "-"), EmDash, "-")
             parts == IF Find(replaced, <<" ", "-", " ">>) # 0
                      THEN Split(replaced, <<" ", "-", " ">>)
                      ELSE Split(replaced, <<"-">>)
         IN  IF Len(parts) # 2 THEN NoWindow
             ELSE LET start_date == StrptimeDate(Strip(parts[1]))
                      end_date == StrptimeDate(Strip(parts[2]))
                  IN  IF start_date.kind = "raised" \/ end_date.kind = "raised"
                      THEN NoWindow
                      ELSE <<start_date.value, end_date.value>>
    ELSE LET single_date == StrptimeDate(Strip(date_input))
         IN  IF single_date.kind = "raised" THEN NoWindow
             ELSE <<single_date.value, single_date.value>>

---------------------------------------------------------------------------
\* main's fixed sets and the folders of one run

photo_extensions ==
    { <<".", "j", "p", "g">>, <<".", "j", "p", "e", "g">>, <<".", "c", "r", "2">>,
      <<".", "n", "e", "f">>, <<".", "a", "r", "w">>, <<".", "d", "n", "g">>,
      <<".", "c", "r", "3">>, <<".", "r", "a", "f">>, <<".", "g", "p", "r">> }

video_extensions ==
    { <<".", "m", "p", "4">>, <<".", "m", "o", "v">>, <<".", "a", "v", "i">>,
      <<".", "m", "k", "v">> }

source_folder == << <<"src">> >>
event_folder == << <<"event">> >>
SubFolder == Append(source_folder, <<"sub">>)

\* os.path.join(path, component)
Join(path, comp) == Append(path, comp)

\* the files a source tree may hold: root, file_name, size in bytes and the
\* day of the modification time
Catalogue ==
    { [root |-> source_folder, name |-> <<"a", ".", "j", "p", "g">>, size |-> 2,
       mtime |-> <<2024, 6, 1>>],
      [root |-> SubFolder,     name |-> <<"a", ".", "j", "p", "g">>, size |-> 3,
       mtime |-> <<2024, 6, 5>>],
      [root |-> source_folder, name |-> <<"b", ".", "J", "P", "G">>, size |-> 2,
       mtime |-> <<2024, 6, 6>>],
      [root |-> source_folder, name |-> <<"c", ".", "m", "o", "v">>, size |-> 2,
       mtime |-> <<2024, 6, 3>>],
      [root |-> source_folder, name |-> <<"d", ".", "t", "x", "t">>, size |-> 1,
       mtime |-> <<2024, 5, 31>>],
      [root |-> source_folder, name |-> <<".", "h", ".", "j", "p", "g">>, size |-> 1,
       mtime |-> <<2024, 6, 3>>],
      [root |-> SubFolder,     name |-> <<"_", "u", ".", "m", "o", "v">>, size |-> 1,
       mtime |-> <<2024, 6, 3>>] }

Trees == {t \in SUBSET Catalogue : Cardinality(t) <= MaxFiles}

\* the names the interactive layer may hand over as "your name", stripped
UserNames == { <<"J", " ", "D">> }

\* the texts the interactive layer may hand over as a manual camera model
ManualModels == { <<"M">>, <<>> }

\* date texts
D0106 == <<"0", "1", "/", "0", "6", "/", "2", "0", "2", "4">>
D0506 == <<"0", "5", "/", "0", "6", "/", "2", "0", "2", "4">>
D0306 == <<"0", "3", "/", "0", "6", "/", "2", "0", "2", "4">>

\* what the date prompt of line 173 may get in a whole run: nothing, a day,
\* a range, a range the wrong way round, a range typed with an en dash, a
\* day that does not exist
FilterInputs ==
    { <<>>, D0106,
      D0106 \o <<" ", "-", " ">> \o D0506,
      D0506 \o <<" ", "-", " ">> \o D0106,
      D0106 \o <<" ", EnDash, " ">> \o D0506,
      <<"3", "1", "/", "0", "2", "/", "2", "0", "2", "4">> }

\* the parts and separators of the texts the date prompt is tried on
DateParts ==
    { D0106, D0506,
      <<"1", "/", "6", "/", "2", "0", "2", "4">>,
      <<"2", "9", "/", "0", "2", "/", "2", "0", "2", "4">>,
      <<"2", "9", "/", "0", "2", "/", "2", "0", "2", "3">>,
      <<"2", "0", "2", "4", "-", "0", "6", "-", "0", "1">>,
      <<"a", "b">>, <<>> }

Separators ==
    { <<"-">>, <<" ", "-", " ">>, <<" ", "-">>, <<"-", " ">>,
      <<EnDash>>, <<" ", EnDash, " ">>, <<EmDash>>, <<" ", EmDash, " ">> }

\* line 173's input(...).strip() of a part, of two parts and a separator,
\* of three parts and two separators
ParseInputs ==
    {Strip(t) : t \in
       DateParts
       \cup {a \o sep \o b : a \in DateParts, sep \in Separators, b \in DateParts}
       \cup {D0106 \o s1 \o D0506 \o s2 \o D0106 :
               s1 \in Separators, s2 \in Separators}}

\* mutation for C28: only the names with a leading dot are skipped
Hidden_DotOnly(name) == StartsWith(name, ".")

\* line 188 and line 219: the files both walks skip
Hidden(name) == StartsWith(name, ".") \/ StartsWith(name, "_")

\* mutation for C29: the extension is compared as it is written
ExtOf_CaseKept(name) == SplitExt(name)

\* the ext of lines 104, 190, 221
ExtOf(name) == Lower(SplitExt(name))

\* the file names os.walk can leave in main's file_name when the walk ends:
\* the walk is top-down, so a file of the last directory that holds files,
\* which is a directory with no file further down
LastWalked(tree) ==
    {f.name : f \in {g \in tree :
       ~\E h \in tree : /\ Len(g.root) < Len(h.root)
                        /\ SubSeq(h.root, 1, Len(g.root)) = g.root}}

\* os.makedirs(p): p and every missing ancestor
Makedirs(ds, p) == ds \cup {SubSeq(p, 1, k) : k \in 1..Len(p)}

\* a file store with the file at path p (re)written with n bytes
WriteFile(fs, p, n) ==
    [q \in (DOMAIN fs) \cup {p} |-> IF q = p THEN n ELSE fs[q]]

\* the source tree after n bytes were written at path p: a file of the
\* tree that is at p now has them
WriteSource(tr, p, n) ==
    {IF Join(f.root, f.name) = p THEN [f EXCEPT !.size = n] ELSE f : f \in tr}

---------------------------------------------------------------------------
\* The metadata probe

\* the day a DateTimeOriginal text denotes
CaptureDay == <<2024, 6, 3>>

\* what one run of the external extractor on one file can do
ExifBehaviours ==
    { [kind |-> "not_installed"], [kind |-> "nonzero_exit"],
      [kind |-> "malformed"], [kind |-> "empty_list"] }
    \cup
    { [kind |-> "ok", Model |-> m, DateTimeOriginal |-> d] :
        m \in { PyNone, PyStr(<<>>), PyStr(<<" ">>), PyStr(<<"X">>),
                PyStr(<<" ", "R", " ", "5", " ">>), PyInt(5) },
        d \in { PyNone, PyInt(5) } \cup
              { PyDateText(l, CaptureDay) : l \in {"colon", "hyphen", "other"} } }

\* lines 39-45: the two strptime layouts; a text of another layout leaves
\* dt_original None, a value that is no text makes strptime raise TypeError
StrptimeRaisesTypeError(d) == Truthy(d) /\ d.t # "str"

ParseDateTimeOriginal(d) ==
    IF Truthy(d) /\ d.t = "str" /\ d.layout \in {"colon", "hyphen"}
    THEN PyDateTime(d.day)
    ELSE PyNone

\* mutation for C34: a timestamp text of neither layout makes the probe
\* return None
exiftool_get_metadata_StrictDate(b) ==
    IF b.kind # "ok" THEN PyNone
    ELSE IF StrptimeRaisesTypeError(b.DateTimeOriginal) THEN PyNone
    ELSE IF Truthy(b.DateTimeOriginal)
            /\ ~Truthy(ParseDateTimeOriginal(b.DateTimeOriginal))
    THEN PyNone
    ELSE [t |-> "dict", model |-> b.Model,
          datetime_original |-> ParseDateTimeOriginal(b.DateTimeOriginal)]

\* exiftool_get_metadata(file_path), given what the extractor does
exiftool_get_metadata(b) ==
    IF b.kind # "ok" THEN PyNone
    ELSE IF StrptimeRaisesTypeError(b.DateTimeOriginal) THEN PyNone
    ELSE [t |-> "dict", model |-> b.Model,
          datetime_original |-> ParseDateTimeOriginal(b.DateTimeOriginal)]

\* extract_camera_model(file_path): what the call returns or raises
extract_camera_model(b) ==
    LET meta == exiftool_get_metadata(b)
    IN  IF Truthy(meta) /\ Truthy(meta.model)
        THEN IF meta.model.t = "str"
             THEN Returned(PyStr(Strip(meta.model.v)))
             ELSE Raised("AttributeError")
        ELSE Returned(PyNone)

\* mutation for C15: the modification time, whatever the probe returns
get_file_date_MtimeOnly(f, b) == PyDateTime(f.mtime)

\* get_file_date(file_path, ext, photo_extensions), lines 65-77, for the file
\* f and what the extractor does when it is run on it
get_file_date(f, b) ==
    LET meta == exiftool_get_metadata(b)
    IN  IF /\ ExtOf(f.name) \in photo_extensions
           /\ Truthy(meta) /\ Truthy(meta.datetime_original)
        THEN meta.datetime_original
        ELSE PyDateTime(f.mtime)

\* datetime.date()
DateOf(dt) == PyDate(dt.day)

\* the datetime_original line 73 reads, None when line 71 makes no probe
\* or the probe returns None
ProbedTimestamp(f, b) ==
    LET meta == exiftool_get_metadata(b)
    IN  IF ExtOf(f.name) \in photo_extensions /\ Truthy(meta)
        THEN meta.datetime_original
        ELSE PyNone

\* line 225 for the file f: what the probe returned and the date used
FileDates(f) ==
    {[probe |-> ProbedTimestamp(f, b), used |-> DateOf(get_file_date(f, b))] :
       b \in ExifBehaviours}

\* mutation for C20: the end of the window is left out
InWindow_EndExcluded(start, d, end) == DateLE(start, d) /\ ~DateLE(end, d)

\* line 226: start_date <= file_date <= end_date
InWindow(start, d, end) == DateLE(start, d) /\ DateLE(d, end)

\* ThreadPoolExecutor(): max_workers = min(32, (os.cpu_count() or 1) + 4)
DefaultMaxWorkers == IF CpuCount + 4 < 32 THEN CpuCount + 4 ELSE 32

---------------------------------------------------------------------------
\* State

VARIABLES
    tree,               \* the files under source_folder
    photographer_name,  \* main's photographer_name
    date_input,         \* main's date_input, stripped
    start_date,         \* main's start_date
    end_date,           \* main's end_date
    use_date_filter,    \* main's use_date_filter
    dated,              \* history: per file of the second walk, line 225's date
    pc,                 \* where main is
    photo_file_paths,   \* main's photo_file_paths, the candidates of the race
    camera_model,       \* main's camera_model
    photography_main,   \* main's photography_main
    videography_main,   \* main's videography_main
    file_name,          \* main's file_name, bound by the walk and by line 262
    rpc,                \* where find_first_camera_model_in_parallel is
    pfut,               \* the probe futures, by candidate
    done_order,         \* the probes that finished, in the order they finished
    ac_snapshot,        \* as_completed: the futures finished when it was called
    yielded,            \* as_completed: the futures the loop already went past
    model,              \* the resolver's local model
    winner,             \* history: the first non-empty identity the loop saw
    late,               \* history: another identity arrived after the winner
    files_to_process,   \* main's files_to_process
    tfut,               \* the transfer futures, by task
    dirs,               \* the directories of the destination tree
    destfiles,          \* the files of the destination tree and their sizes
    success_count,      \* main's success_count
    skipped_files,      \* main's skipped_files
    source_readable,    \* whether source_folder can be listed
    event_writable,     \* whether directories and files can be made under event_folder
    exif,               \* what the extractor does on the file of one probe
    meta                \* what exiftool_get_metadata returned for it

mainVars == <<tree, photographer_name, pc, photo_file_paths, camera_model,
              photography_main, videography_main, file_name>>
filterVars == <<date_input, start_date, end_date, use_date_filter, dated>>
raceVars == <<rpc, pfut, done_order, ac_snapshot, yielded, model, winner, late>>
transferVars == <<files_to_process, tfut, dirs, destfiles, success_count,
                  skipped_files>>
envVars == <<source_readable, event_writable>>
probeVars == <<exif, meta>>
vars == <<mainVars, filterVars, raceVars, transferVars, envVars, probeVars>>

NoPath == <<>>
Unbound == <<"<unbound>">>
NoResult == [kind |-> "none"]

\* no probe is looked at on its own
NoProbe == [kind |-> "none"]

\* the variables after the prompts of lines 166-173 and lines 174-175, for
\* the source trees and the date texts given, the event folder holding the
\* directories ds and the files fs
InitState(trees, inputs, ds, fs) ==
    /\ tree \in trees
    /\ photographer_name \in UserNames
    /\ date_input \in inputs
    /\ start_date = PyNone
    /\ end_date = PyNone
    /\ use_date_filter = FALSE
    /\ dated = << >>
    /\ photo_file_paths = {}
    /\ camera_model = PyNone
    /\ photography_main = NoPath
    /\ videography_main = NoPath
    /\ file_name = Unbound
    /\ rpc = "idle"
    /\ pfut = << >>
    /\ done_order = << >>
    /\ ac_snapshot = {}
    /\ yielded = {}
    /\ model = PyNone
    /\ winner = PyNone
    /\ late = FALSE
    /\ files_to_process = {}
    /\ tfut = << >>
    /\ dirs = ds
    /\ destfiles = fs
    /\ success_count = 0
    /\ skipped_files = << >>
    /\ meta = PyNone

\* main at line 176
InitMain(trees, inputs, ds, fs) ==
    /\ InitState(trees, inputs, ds, fs)
    /\ pc = "dates"
    /\ exif = NoProbe

\* the same, with a source folder that can be listed and an event folder
\* that can be written
InitOver(trees, inputs, ds, fs) ==
    /\ InitMain(trees, inputs, ds, fs)
    /\ source_readable = TRUE
    /\ event_writable = TRUE

\* the same with nothing in the event folder
InitWith(trees, inputs) == InitOver(trees, inputs, {event_folder}, << >>)

\* the runs with the date prompt left empty
Init == InitWith(Trees, {<<>>})

\* the runs with a date text, too
InitFilter == InitWith(Trees, FilterInputs)

\* whole runs, with the date prompt left empty or answered with one day
InitWhole == InitWith(Trees, {<<>>, D0306})

\* the date prompt alone, on an empty source tree
InitParse == InitWith({{}}, ParseInputs)

---------------------------------------------------------------------------
\* main, lines 173-181: the date prompt

\* mutation for C19: a text that does not parse ends the run
ParseDateInput_AbortOnError ==
    /\ pc = "dates"
    /\ LET w == IF date_input # <<>> THEN parse_date_input(date_input) ELSE NoWindow
       IN  /\ start_date' = w[1]
           /\ end_date' = w[2]
           /\ use_date_filter' = (Truthy(w[1]) /\ Truthy(w[2]))
           /\ pc' = IF date_input # <<>> /\ ~(Truthy(w[1]) /\ Truthy(w[2]))
                    THEN "crashed" ELSE "gather"
    /\ UNCHANGED <<tree, photographer_name, envVars, probeVars, photo_file_paths, camera_model,
                   photography_main, videography_main, file_name, date_input,
                   dated, raceVars, transferVars>>

\* lines 176-181: a text that parses turns the filter on; one that does not
\* is reported by line 181's print and the run goes on without a filter
ParseDateInput ==
    /\ pc = "dates"
    /\ LET w == IF date_input # <<>> THEN parse_date_input(date_input) ELSE NoWindow
       IN  /\ start_date' = w[1]
           /\ end_date' = w[2]
           /\ use_date_filter' = (Truthy(w[1]) /\ Truthy(w[2]))
    /\ pc' = "gather"
    /\ UNCHANGED <<tree, photographer_name, envVars, probeVars, photo_file_paths, camera_model,
                   photography_main, videography_main, file_name, date_input,
                   dated, raceVars, transferVars>>

---------------------------------------------------------------------------
\* main, lines 183-196: the first walk and the call of the resolver

\* the files os.walk(source_folder) goes through, lines 186 and 217: when
\* the folder cannot be listed os.walk drops the error of scandir (onerror
\* is None) and yields nothing
WalkedFiles == IF source_readable THEN tree ELSE {}

\* os.makedirs(path) of line 81 raises PermissionError: the directory is
\* not there and nothing can be made under event_folder
MakedirsDenied(ds, path) == path \notin ds /\ ~event_writable

\* mutation for C37: only the photos whose modification day is in the
\* window are candidates
GatherPhotos_InWindow ==
    /\ pc = "gather"
    /\ photo_file_paths' =
         {f \in WalkedFiles :
            /\ ~Hidden(f.name) /\ ExtOf(f.name) \in photo_extensions
            /\ use_date_filter => InWindow(start_date, PyDate(f.mtime), end_date)}
    /\ pc' = "race"
    /\ rpc' = "entry"
    /\ UNCHANGED <<tree, photographer_name, envVars, probeVars, camera_model,
                   photography_main, videography_main, file_name, pfut,
                   done_order, ac_snapshot, yielded, model, winner, late,
                   transferVars, filterVars>>

\* lines 185-192.  The walk also binds file_name, but the second walk binds
\* it again over the same tree before anything reads it.
GatherPhotos ==
    /\ pc = "gather"
    /\ photo_file_paths' =
         {f \in WalkedFiles : ~Hidden(f.name) /\ ExtOf(f.name) \in photo_extensions}
    /\ pc' = "race"
    /\ rpc' = "entry"
    /\ UNCHANGED <<tree, photographer_name, envVars, probeVars, camera_model, photography_main,
                   videography_main, file_name, pfut, done_order, ac_snapshot,
                   yielded, model, winner, late, transferVars, filterVars>>

---------------------------------------------------------------------------
\* find_first_camera_model_in_parallel, lines 141-163

Busy(futs) == {p \in DOMAIN futs : futs[p].st \in {"running", "hung"}}
Unfinished(futs) == {p \in DOMAIN futs : futs[p].st \in {"pending", "running", "hung"}}

\* lines 147-154: no candidates, or one future per candidate
REnter ==
    /\ pc = "race" /\ rpc = "entry"
    /\ IF photo_file_paths = {}
       THEN /\ rpc' = "returned"
            /\ camera_model' = PyNone
            /\ pc' = "plan"
            /\ pfut' = pfut
       ELSE /\ rpc' = "submitted"
            /\ pfut' = [p \in photo_file_paths |-> [st |-> "pending", res |-> NoResult]]
            /\ UNCHANGED <<camera_model, pc>>
    /\ UNCHANGED <<tree, photographer_name, envVars, probeVars, photo_file_paths, photography_main,
                   videography_main, file_name, done_order, ac_snapshot,
                   yielded, model, winner, late, transferVars, filterVars>>

\* a worker thread of the pool takes a queued probe; the call of the
\* extractor (subprocess.run, line 24, no timeout) may never come back.
\* The queue is first in, first out over the walk's order, which os.walk
\* does not fix within a directory; the threads then run at any speed, so
\* any queued probe may be the next one seen to start.
PStart(p) ==
    /\ pfut[p].st = "pending"
    /\ Cardinality(Busy(pfut)) < DefaultMaxWorkers
    /\ \E hangs \in BOOLEAN :
         pfut' = [pfut EXCEPT ![p].st = IF hangs THEN "hung" ELSE "running"]
    /\ UNCHANGED <<mainVars, envVars, probeVars, rpc, done_order, ac_snapshot, yielded, model,
                   winner, late, transferVars, filterVars>>

\* extract_camera_model returns or raises; the future is set
PFinish(p) ==
    /\ pfut[p].st = "running"
    /\ \E b \in ExifBehaviours :
         LET r == extract_camera_model(b)
         IN  /\ pfut' = [pfut EXCEPT ![p] = [st |-> "done", res |-> r]]
             /\ late' = (late \/ (/\ Truthy(winner)
                                  /\ r.kind = "returned"
                                  /\ Truthy(r.value)
                                  /\ r.value # winner))
    /\ done_order' = Append(done_order, p)
    /\ UNCHANGED <<mainVars, envVars, probeVars, rpc, ac_snapshot, yielded, model, winner,
                   transferVars, filterVars>>

\* line 155, the call of as_completed: the futures already finished are
\* yielded first, in no particular order
RAsCompleted ==
    /\ rpc = "submitted"
    /\ ac_snapshot' = {p \in DOMAIN pfut : pfut[p].st = "done"}
    /\ rpc' = "loop"
    /\ UNCHANGED <<mainVars, envVars, probeVars, pfut, done_order, yielded, model, winner, late,
                   transferVars, filterVars>>

\* mutation for C13: any finished future may be yielded next
NextYield_AnyFinished ==
    {p \in DOMAIN pfut : pfut[p].st = "done"} \ yielded

\* the futures as_completed can yield next: one of the snapshot, and after
\* them the finished ones in the order they finished
NextYield ==
    IF ac_snapshot \ yielded # {}
    THEN ac_snapshot \ yielded
    ELSE LET later == SelectSeq(done_order, LAMBDA p : p \notin yielded)
         IN  IF later = << >> THEN {} ELSE {Head(later)}

\* the call is over: its frame (the futures, as_completed's state, model)
\* is dropped; what outlives it is whether a worker thread is still busy
Dropped(futs) == [p \in DOMAIN futs |-> [st |-> futs[p].st, res |-> NoResult]]

\* find_first_camera_model_in_parallel returns value to line 196
ReturnModel(value) ==
    /\ rpc' = "returned"
    /\ camera_model' = value
    /\ pc' = "plan"
    /\ pfut' = Dropped(pfut)
    /\ done_order' = << >>
    /\ ac_snapshot' = {}
    /\ yielded' = {}
    /\ model' = PyNone

\* lines 155-157 and 163: one turn of the loop.  After the last future the
\* with block's shutdown finds every thread idle and line 163 returns None.
RNext(p) ==
    /\ rpc = "loop"
    /\ p \in NextYield
    /\ LET r == pfut[p].res
       IN  IF r.kind = "raised"
           THEN /\ rpc' = "unwind"
                /\ yielded' = yielded \cup {p}
                /\ UNCHANGED <<model, winner, camera_model, pc, pfut,
                               done_order, ac_snapshot>>
           ELSE IF Truthy(r.value)
           THEN /\ model' = r.value
                /\ winner' = r.value
                /\ rpc' = "shutdown"
                /\ yielded' = yielded \cup {p}
                /\ UNCHANGED <<camera_model, pc, pfut, done_order, ac_snapshot>>
           ELSE IF yielded \cup {p} = DOMAIN pfut
           THEN /\ ReturnModel(PyNone)
                /\ UNCHANGED winner
           ELSE /\ model' = r.value
                /\ yielded' = yielded \cup {p}
                /\ UNCHANGED <<rpc, winner, camera_model, pc, pfut,
                               done_order, ac_snapshot>>
    /\ UNCHANGED <<tree, photographer_name, envVars, probeVars, photo_file_paths, photography_main,
                   videography_main, file_name, late, transferVars, filterVars>>

\* mutation for C9: shutdown() without cancel_futures
RShutdownCancel_NoCancel ==
    /\ rpc = "shutdown"
    /\ rpc' = "join"
    /\ UNCHANGED <<mainVars, envVars, probeVars, pfut, done_order, ac_snapshot, yielded, model,
                   winner, late, transferVars, filterVars>>

\* line 161, executor.shutdown(cancel_futures=True) (Python 3.9 or later, as
\* line 160 says): the queue is drained and every future still in it is
\* cancelled
RShutdownCancel ==
    /\ rpc = "shutdown"
    /\ pfut' = [p \in DOMAIN pfut |->
                  IF pfut[p].st = "pending"
                  THEN [pfut[p] EXCEPT !.st = "cancelled"]
                  ELSE pfut[p]]
    /\ rpc' = "join"
    /\ UNCHANGED <<mainVars, envVars, probeVars, done_order, ac_snapshot, yielded, model, winner,
                   late, transferVars, filterVars>>

\* mutation for C10: the identity of the probe that finished last is returned
RJoin_ReturnsLatest ==
    /\ rpc = "join"
    /\ Busy(pfut) = {}
    /\ LET last == pfut[done_order[Len(done_order)]].res
       IN  ReturnModel(IF last.kind = "returned" /\ Truthy(last.value)
                       THEN last.value ELSE model)
    /\ UNCHANGED <<tree, photographer_name, envVars, probeVars, photo_file_paths, photography_main,
                   videography_main, file_name, winner, late, transferVars, filterVars>>

\* mutation for C11: shutdown(wait=False), line 162 returns at once
RJoin_NoWait ==
    /\ rpc = "join"
    /\ ReturnModel(model)
    /\ UNCHANGED <<tree, photographer_name, envVars, probeVars, photo_file_paths, photography_main,
                   videography_main, file_name, winner, late, transferVars,
                   filterVars>>

\* line 161, shutdown's wait=True default: every worker thread is joined;
\* then line 162 returns model (the with block's own shutdown finds the
\* threads gone) and line 196 binds camera_model
RJoin ==
    /\ rpc = "join"
    /\ Busy(pfut) = {}
    /\ ReturnModel(model)
    /\ UNCHANGED <<tree, photographer_name, envVars, probeVars, photo_file_paths, photography_main,
                   videography_main, file_name, winner, late, transferVars, filterVars>>

\* future.result() raised at line 156: the with block's shutdown(wait=True)
\* lets every queued probe run and joins the threads, then the exception
\* leaves find_first_camera_model_in_parallel and main
RUnwind ==
    /\ rpc = "unwind"
    /\ Unfinished(pfut) = {}
    /\ rpc' = "raised"
    /\ pc' = "crashed"
    /\ pfut' = Dropped(pfut)
    /\ done_order' = << >>
    /\ ac_snapshot' = {}
    /\ yielded' = {}
    /\ model' = PyNone
    /\ UNCHANGED <<tree, photographer_name, envVars, probeVars, photo_file_paths, camera_model,
                   photography_main, videography_main, file_name, winner,
                   late, transferVars, filterVars>>

Race ==
    \/ REnter
    \/ RAsCompleted
    \/ RShutdownCancel
    \/ RJoin
    \/ RUnwind
    \/ \E p \in DOMAIN pfut : PStart(p) \/ PFinish(p) \/ RNext(p)

---------------------------------------------------------------------------
\* main, lines 197-248: the identity, the plan, the second walk

\* mutation for C27: the spaces are kept
FolderSuffix_SpacesKept(cm, name) == cm \o <<"_">> \o name

\* line 204: f"{camera_model}_{photographer_name}".replace(" ", "_")
FolderSuffix(cm, name) == Replace(cm \o <<"_">> \o name, " ", "_")

\* mutation for C24: the test of line 80 the wrong way round
CreateDirectory_TestInverted(ds, path) ==
    IF path \in ds THEN Makedirs(ds, path) ELSE ds

\* create_directory(path), lines 79-81, run with nothing in between its test
\* and its makedirs (main's own calls: no worker runs then)
CreateDirectory(ds, path) == IF path \notin ds THEN Makedirs(ds, path) ELSE ds

\* lines 197-212: ask for the model when the race found none, build the
\* suffix, create Graphics, derive the two roots; an error of line 208's
\* makedirs leaves main
Plan ==
    /\ pc = "plan"
    /\ \E manual \in ManualModels :
         LET cm == IF ~Truthy(camera_model) THEN PyStr(manual) ELSE camera_model
             folder_suffix == FolderSuffix(cm.v, photographer_name)
             graphics_folder == Join(event_folder, <<"Graphics">>)
         IN  /\ camera_model' = cm
             /\ IF MakedirsDenied(dirs, graphics_folder)
                THEN /\ pc' = "crashed"
                     /\ UNCHANGED <<photography_main, videography_main, dirs>>
                ELSE /\ photography_main' =
                          Join(Join(event_folder, <<"Photography">>), folder_suffix)
                     /\ videography_main' =
                          Join(Join(event_folder, <<"Videography">>), folder_suffix)
                     /\ dirs' = CreateDirectory(dirs, graphics_folder)
                     /\ pc' = "walk"
    /\ UNCHANGED <<tree, photographer_name, envVars, probeVars, photo_file_paths, file_name,
                   filterVars, raceVars, files_to_process, tfut, destfiles, success_count,
                   skipped_files>>

\* the task tuple of line 230 (the two extension sets are the fixed ones)
Task(f) ==
    [root |-> f.root, file_name |-> f.name,
     photography_main |-> photography_main,
     videography_main |-> videography_main]

\* lines 216-231: every file that is not hidden becomes a task, under a
\* date filter only if its date is in the window
BuildFileList ==
    /\ pc = "walk"
    /\ LET walked == {g \in WalkedFiles : ~Hidden(g.name)}
       IN  IF use_date_filter
           THEN \E d \in [walked -> UNION {FileDates(f) : f \in walked}] :
                  /\ \A f \in walked : d[f] \in FileDates(f)
                  /\ dated' = d
                  /\ files_to_process' =
                       {Task(f) : f \in {g \in walked :
                          InWindow(start_date, d[g].used, end_date)}}
           ELSE /\ dated' = dated
                /\ files_to_process' = {Task(f) : f \in walked}
    /\ IF WalkedFiles = {}
       THEN file_name' = file_name
       ELSE file_name' \in LastWalked(WalkedFiles)
    /\ pc' = "folders"
    /\ UNCHANGED <<tree, photographer_name, envVars, probeVars, photo_file_paths, camera_model,
                   photography_main, videography_main, date_input, start_date,
                   end_date, use_date_filter, raceVars, tfut, dirs,
                   destfiles, success_count, skipped_files>>

\* mutation for C26: every task counts as a photo
PhotoTasks_All(tasks) == tasks

\* mutation for C25: every task counts as a video
VideoTasks_All(tasks) == tasks

\* lines 234-235
PhotoTasks(tasks) == {t \in tasks : ExtOf(t.file_name) \in photo_extensions}
VideoTasks(tasks) == {t \in tasks : ExtOf(t.file_name) \in video_extensions}

\* lines 237-245 on the directories ds, for the tasks and the two roots
WithMainFolders(ds, tasks, photo_root, video_root) ==
    LET videography_folder == Join(event_folder, <<"Videography">>)
        d1 == IF PhotoTasks(tasks) # {}
              THEN CreateDirectory(ds, photo_root)
              ELSE ds
        d2 == CreateDirectory(d1, videography_folder)
        d3 == CreateDirectory(d2, video_root)
        d4 == CreateDirectory(d3, Join(videography_folder, <<"EXPORT">>))
        d5 == CreateDirectory(d4, Join(videography_folder, <<"Project Files">>))
        d6 == CreateDirectory(d5, Join(videography_folder, <<"VFX + SFX Folder">>))
    IN  IF VideoTasks(tasks) # {} THEN d6 ELSE d1

\* lines 237-245: the main folders, only if needed; an error of makedirs
\* leaves main
MainFolders ==
    /\ pc = "folders"
    /\ LET made == WithMainFolders(dirs, files_to_process, photography_main,
                                   videography_main)
       IN  IF made # dirs /\ ~event_writable
           THEN pc' = "crashed" /\ dirs' = dirs
           ELSE pc' = "submit" /\ dirs' = made
    /\ UNCHANGED <<tree, photographer_name, envVars, probeVars, photo_file_paths, camera_model,
                   photography_main, videography_main, file_name, filterVars, raceVars, files_to_process, tfut, destfiles,
                   success_count, skipped_files>>

---------------------------------------------------------------------------
\* The transfer stage: process_file (lines 98-117) on the pool's threads,
\* main's loop (lines 254-269) collecting the futures

\* os.path.getsize of a task's source file
SourceSize(t) ==
    (CHOOSE f \in tree : f.root = t.root /\ f.name = t.file_name).size

\* mutation for C22: a file of neither set is filed with the videos
TargetFolder_OthersWithVideos(t) ==
    LET ext == ExtOf(t.file_name)
    IN  IF ext \in photo_extensions
        THEN Join(t.photography_main, Upper(Tail(ext)))
        ELSE Join(t.videography_main, Upper(Tail(ext)))

\* lines 107-112: the target folder, NoPath for a file of neither set
TargetFolder(t) ==
    LET ext == ExtOf(t.file_name)
    IN  IF ext \in photo_extensions
        THEN Join(t.photography_main, Upper(Tail(ext)))
        ELSE IF ext \in video_extensions
        THEN Join(t.videography_main, Upper(Tail(ext)))
        ELSE NoPath

\* line 115
TargetFilePath(t) == Join(TargetFolder(t), t.file_name)

\* what the environment may do to one copy: nothing, make shutil.copy2
\* raise, or cut the last byte off what it writes
CopyFaults == {"none", "copy_error", "truncate"}

NewFuture ==
    [st |-> "pending", at |-> "-", res |-> NoResult, fault |-> "-",
     copied |-> FALSE, seen |-> -1, msg |-> "-", rec |-> "-"]

\* the tuple process_file returns
Outcome(success, name) == Returned([success |-> success, file_name |-> name])

\* lines 254-259: one future per task
Submit ==
    /\ pc = "submit"
    /\ tfut' = [t \in files_to_process |-> NewFuture]
    /\ pc' = "transfer"
    /\ UNCHANGED <<tree, photographer_name, envVars, probeVars, photo_file_paths, camera_model,
                   photography_main, videography_main, file_name, filterVars, raceVars,
                   files_to_process, dirs, destfiles, success_count,
                   skipped_files>>

\* mutation for C33: a thread for every queued task, whatever max_workers
TStart_NoCeiling(t) ==
    /\ pc = "transfer"
    /\ tfut[t].st = "pending"
    /\ tfut' = [tfut EXCEPT ![t] =
         IF TargetFolder(t) = NoPath
         THEN [@ EXCEPT !.st = "done", !.res = Outcome(FALSE, t.file_name)]
         ELSE IF TargetFolder(t) \in dirs
         THEN [@ EXCEPT !.st = "running", !.at = "copy"]
         ELSE [@ EXCEPT !.st = "running", !.at = "makedirs"]]
    /\ UNCHANGED <<mainVars, envVars, probeVars, filterVars, raceVars,
                   files_to_process, dirs, destfiles, success_count,
                   skipped_files>>

\* a worker thread takes a queued task: lines 103-112, and line 80's test
\* of create_directory for a photo or a video.  Threads run at any speed, so
\* line 80 of any queued task may be the next one to run.
TStart(t) ==
    /\ pc = "transfer"
    /\ tfut[t].st = "pending"
    /\ Cardinality(Busy(tfut)) < CpuCount
    /\ tfut' = [tfut EXCEPT ![t] =
         IF TargetFolder(t) = NoPath
         THEN [@ EXCEPT !.st = "done", !.res = Outcome(FALSE, t.file_name)]
         ELSE IF TargetFolder(t) \in dirs
         THEN [@ EXCEPT !.st = "running", !.at = "copy"]
         ELSE [@ EXCEPT !.st = "running", !.at = "makedirs"]]
    /\ UNCHANGED <<mainVars, envVars, probeVars, filterVars, raceVars, files_to_process, dirs, destfiles,
                   success_count, skipped_files>>

\* line 81: os.makedirs without exist_ok raises FileExistsError when the
\* directory has appeared since line 80's test, PermissionError when it
\* cannot be made
TMakedirs(t) ==
    /\ tfut[t].st = "running" /\ tfut[t].at = "makedirs"
    /\ IF TargetFolder(t) \in dirs \/ ~event_writable
       THEN /\ tfut' = [tfut EXCEPT ![t] =
                 [@ EXCEPT !.st = "done", !.at = "-",
                           !.res = IF TargetFolder(t) \in dirs
                                   THEN Raised("FileExistsError")
                                   ELSE Raised("PermissionError")]]
            /\ dirs' = dirs
       ELSE /\ tfut' = [tfut EXCEPT ![t].at = "copy"]
            /\ dirs' = Makedirs(dirs, TargetFolder(t))
    /\ UNCHANGED <<mainVars, envVars, probeVars, filterVars, raceVars, files_to_process, destfiles,
                   success_count, skipped_files>>

\* line 95 and line 92: what secure_copy prints for a failure
CopyErrorMessage == "copy_error"

\* mutation for C5: the mismatch is reported with the copy error's message
MismatchMessage_AsCopyError == CopyErrorMessage

MismatchMessage == "size_mismatch"

\* line 103
SourceFilePath(t) == Join(t.root, t.file_name)

\* line 88: shutil.copy2 raises (lines 94-96 print and return False), as it
\* does with SameFileError when the target is the source file itself and
\* with PermissionError when the target cannot be written, or it writes the
\* target, over whatever file is at that path
TCopy(t) ==
    /\ tfut[t].st = "running" /\ tfut[t].at = "copy"
    /\ \E fault \in CopyFaults :
         IF \/ fault = "copy_error"
            \/ TargetFilePath(t) = SourceFilePath(t)
            \/ ~event_writable
         THEN /\ tfut' = [tfut EXCEPT ![t] =
                   [@ EXCEPT !.st = "done", !.at = "-", !.fault = "copy_error",
                             !.msg = CopyErrorMessage,
                             !.res = Outcome(FALSE, t.file_name)]]
              /\ destfiles' = destfiles
              /\ tree' = tree
         ELSE LET written == IF fault = "truncate" THEN SourceSize(t) - 1
                                                   ELSE SourceSize(t)
              IN  /\ tfut' = [tfut EXCEPT ![t] =
                        [@ EXCEPT !.at = "verify", !.fault = fault,
                                  !.copied = TRUE]]
                  /\ destfiles' = WriteFile(destfiles, TargetFilePath(t), written)
                  /\ tree' = WriteSource(tree, TargetFilePath(t), written)
    /\ UNCHANGED <<photographer_name, envVars, probeVars, pc, photo_file_paths, camera_model,
                   photography_main, videography_main, file_name, filterVars,
                   raceVars, files_to_process, dirs, success_count,
                   skipped_files>>

\* mutation for C4: a target no larger than the source passes
SizesMatch_AtMost(source_size, target_size) == target_size <= source_size

\* line 89: the size test of secure_copy
SizesMatch(source_size, target_size) == source_size = target_size

\* lines 89-93 and 117: the sizes are read and compared
TVerify(t) ==
    /\ tfut[t].st = "running" /\ tfut[t].at = "verify"
    /\ LET target_size == destfiles[TargetFilePath(t)]
           success == SizesMatch(SourceSize(t), target_size)
       IN  tfut' = [tfut EXCEPT ![t] =
             [@ EXCEPT !.st = "done", !.at = "-", !.seen = target_size,
                       !.msg = IF success THEN "-" ELSE MismatchMessage,
                       !.res = Outcome(success, t.file_name)]]
    /\ UNCHANGED <<mainVars, envVars, probeVars, filterVars, raceVars, files_to_process, dirs, destfiles,
                   success_count, skipped_files>>

\* mutation for C1: the except branch records nothing
Collect_DropExcept(res, count, skipped, name) ==
    IF res.kind = "returned"
    THEN IF res.value.success
         THEN [count |-> count + 1, skipped |-> skipped,
               name |-> res.value.file_name, rec |-> "success"]
         ELSE [count |-> count,
               skipped |-> Append(skipped, res.value.file_name),
               name |-> res.value.file_name, rec |-> "skipped"]
    ELSE [count |-> count, skipped |-> skipped, name |-> name, rec |-> "except"]

\* lines 261-268 on one future's result: the new success_count,
\* skipped_files and file_name, and the branch taken
Collect(res, count, skipped, name) ==
    IF res.kind = "returned"
    THEN IF res.value.success
         THEN [count |-> count + 1, skipped |-> skipped,
               name |-> res.value.file_name, rec |-> "success"]
         ELSE [count |-> count,
               skipped |-> Append(skipped, res.value.file_name),
               name |-> res.value.file_name, rec |-> "skipped"]
    ELSE [count |-> count, skipped |-> Append(skipped, name),
          name |-> name, rec |-> "except"]

\* lines 260-269: as_completed yields a finished future the loop has not
\* seen yet; main is the only thread that touches the tallies
Aggregate(t) ==
    /\ pc = "transfer"
    /\ tfut[t].st = "done" /\ tfut[t].rec = "-"
    /\ LET c == Collect(tfut[t].res, success_count, skipped_files, file_name)
       IN  /\ success_count' = c.count
           /\ skipped_files' = c.skipped
           /\ file_name' = c.name
           /\ tfut' = [tfut EXCEPT ![t].rec = c.rec]
    /\ UNCHANGED <<tree, photographer_name, envVars, probeVars, pc, photo_file_paths, camera_model,
                   photography_main, videography_main, filterVars, raceVars,
                   files_to_process, dirs, destfiles>>

\* mutation for C3: the loop is left at the first failure it collects
EndTransfer_OnFailure ==
    /\ pc = "transfer"
    /\ \/ \A t \in DOMAIN tfut : tfut[t].rec # "-"
       \/ \E t \in DOMAIN tfut : tfut[t].rec \in {"skipped", "except"}
    /\ pc' = "summary"
    /\ UNCHANGED <<tree, photographer_name, envVars, probeVars, photo_file_paths, camera_model,
                   photography_main, videography_main, file_name, filterVars, raceVars,
                   transferVars>>

\* mutation for C32: the loop is left as soon as every task was taken by a
\* worker
EndTransfer_AllTaken ==
    /\ pc = "transfer"
    /\ \A t \in DOMAIN tfut : tfut[t].st # "pending"
    /\ pc' = "summary"
    /\ UNCHANGED <<tree, photographer_name, envVars, probeVars,
                   photo_file_paths, camera_model, photography_main,
                   videography_main, file_name, filterVars, raceVars,
                   transferVars>>

\* the loop of line 260 ends when every future has been yielded; the two
\* with blocks are left
EndTransfer ==
    /\ pc = "transfer"
    /\ \A t \in DOMAIN tfut : tfut[t].rec # "-"
    /\ pc' = "summary"
    /\ UNCHANGED <<tree, photographer_name, envVars, probeVars, photo_file_paths, camera_model,
                   photography_main, videography_main, file_name, filterVars, raceVars,
                   transferVars>>

\* lines 271-279: the summary is printed
Report ==
    /\ pc = "summary"
    /\ pc' = "done"
    /\ UNCHANGED <<tree, photographer_name, envVars, probeVars, photo_file_paths, camera_model,
                   photography_main, videography_main, file_name, filterVars, raceVars,
                   transferVars>>

Transfer ==
    \/ Submit
    \/ EndTransfer
    \/ Report
    \/ \E t \in DOMAIN tfut : TStart(t) \/ TMakedirs(t) \/ TCopy(t) \/ TVerify(t) \/ Aggregate(t)

Next ==
    \/ ParseDateInput
    \/ GatherPhotos
    \/ Race
    \/ Plan
    \/ BuildFileList
    \/ MainFolders
    \/ Transfer

Spec == Init /\ [][Next]_vars

\* the same runs with main's thread and the worker threads scheduled: a
\* step that can be taken is taken in the end
SpecLive == Init /\ [][Next]_vars /\ WF_vars(Next)

\* main up to the submission of the tasks (line 259), with a date text
NextFilter ==
    \/ ParseDateInput
    \/ GatherPhotos
    \/ Race
    \/ Plan
    \/ BuildFileList
    \/ MainFolders
    \/ Submit

SpecFilter == InitFilter /\ [][NextFilter]_vars

\* main from the date prompt to the summary, with and without a filter
SpecWhole == InitWhole /\ [][Next]_vars

\* the date prompt of main
NextParse == ParseDateInput

SpecParse == InitParse /\ [][NextParse]_vars

---------------------------------------------------------------------------
\* Runs whose source folder holds the event folder (lines 166-167 take any
\* two paths): the folder given as source is the one that holds src and the
\* event folder, and an earlier run has left a photo in the event folder

EarlierCopy ==
    [root |-> Join(Join(Join(event_folder, <<"Photography">>),
                        FolderSuffix(<<"X">>, <<"J", " ", "D">>)),
                   <<"J", "P", "G">>),
     name |-> <<"a", ".", "j", "p", "g">>, size |-> 3, mtime |-> <<2024, 6, 1>>]

OverlapTrees ==
    {t \cup {EarlierCopy} : t \in {u \in Trees : Cardinality(u) < MaxFiles}}

InitOverlap ==
    InitOver(OverlapTrees, {<<>>},
             Makedirs({event_folder}, EarlierCopy.root),
             WriteFile(<< >>, Join(EarlierCopy.root, EarlierCopy.name),
                       EarlierCopy.size))

SpecOverlap == InitOverlap /\ [][Next]_vars

---------------------------------------------------------------------------
\* exiftool_get_metadata on its own: one call on a photo, for everything the
\* extractor can do on it

InitProbe ==
    /\ InitState({ {f} : f \in {g \in Catalogue :
                                   /\ ~Hidden(g.name)
                                   /\ ExtOf(g.name) \in photo_extensions} },
                 {<<>>}, {event_folder}, << >>)
    /\ pc = "probe"
    /\ exif \in ExifBehaviours
    /\ source_readable = TRUE
    /\ event_writable = TRUE

\* lines 21-54: the call returns
ProbeFile ==
    /\ pc = "probe"
    /\ meta' = exiftool_get_metadata(exif)
    /\ pc' = "probed"
    /\ UNCHANGED <<tree, photographer_name, photo_file_paths, camera_model,
                   photography_main, videography_main, file_name, filterVars,
                   raceVars, transferVars, envVars, exif>>

NextProbe == ProbeFile

SpecProbe == InitProbe /\ [][NextProbe]_vars

---------------------------------------------------------------------------
\* Runs over one photo or video more than the host has processors, so that
\* the pool of line 255 is smaller than the batch

PoolTrees ==
    {t \in SUBSET {f \in Catalogue :
                     /\ ~Hidden(f.name)
                     /\ ExtOf(f.name) \in photo_extensions \cup video_extensions} :
       Cardinality(t) = CpuCount + 1}

InitPool == InitWith(PoolTrees, {<<>>})

SpecPool == InitPool /\ [][Next]_vars

---------------------------------------------------------------------------
\* Runs with a source folder that may not be listable and an event folder
\* that may not be writable, empty or holding the Graphics folder of an
\* earlier run

InitRoots ==
    /\ \E ds \in { {event_folder},
                    Makedirs({event_folder}, Join(event_folder, <<"Graphics">>)) } :
         InitMain(Trees, {<<>>}, ds, << >>)
    /\ source_readable \in BOOLEAN
    /\ event_writable \in BOOLEAN

SpecRoots == InitRoots /\ [][Next]_vars

---------------------------------------------------------------------------
\* A second run over the same source, into what a first run left

\* the photos and videos among the tasks
Transferable(tasks) == {t \in tasks : TargetFolder(t) # NoPath}

\* the directories of the event folder after a first run in which every
\* photo and video was copied: Graphics, the main folders, a folder per
\* extension
FirstRunDirs(tasks, photo_root, video_root) ==
    LET planned == WithMainFolders(
                     CreateDirectory({event_folder},
                                     Join(event_folder, <<"Graphics">>)),
                     tasks, photo_root, video_root)
    IN  planned \cup UNION {Makedirs({}, TargetFolder(t)) : t \in Transferable(tasks)}

\* the files of the event folder after such a run: every target path holds
\* the bytes of a source file copied to it (of the one copied last, when
\* two files of the source have the same name)
FirstRunFiles(tasks) ==
    LET paths == {TargetFilePath(t) : t \in Transferable(tasks)}
        sizes(q) == {SourceSize(t) : t \in {u \in Transferable(tasks) :
                                              TargetFilePath(u) = q}}
    IN  {d \in [paths -> UNION {sizes(q) : q \in paths}] :
           \A q \in paths : d[q] \in sizes(q)}

\* main at line 254 of a second run with the prompts answered as in the
\* first and the same identity (X from the race, M typed when the source
\* has no photo)
InitRerun ==
    /\ tree \in Trees
    /\ photographer_name \in UserNames
    /\ date_input = <<>>
    /\ start_date = PyNone
    /\ end_date = PyNone
    /\ use_date_filter = FALSE
    /\ dated = << >>
    /\ pc = "submit"
    /\ photo_file_paths =
         {f \in tree : ~Hidden(f.name) /\ ExtOf(f.name) \in photo_extensions}
    /\ camera_model = IF photo_file_paths = {} THEN PyStr(<<"M">>)
                                                ELSE PyStr(<<"X">>)
    /\ photography_main =
         Join(Join(event_folder, <<"Photography">>),
              FolderSuffix(camera_model.v, photographer_name))
    /\ videography_main =
         Join(Join(event_folder, <<"Videography">>),
              FolderSuffix(camera_model.v, photographer_name))
    /\ IF tree = {} THEN file_name = Unbound ELSE file_name \in LastWalked(tree)
    /\ rpc = "returned"
    /\ pfut = [q \in photo_file_paths |-> [st |-> "done", res |-> NoResult]]
    /\ done_order = << >>
    /\ ac_snapshot = {}
    /\ yielded = {}
    /\ model = PyNone
    /\ winner = IF photo_file_paths = {} THEN PyNone ELSE camera_model
    /\ late = FALSE
    /\ files_to_process = {Task(f) : f \in {g \in tree : ~Hidden(g.name)}}
    /\ tfut = << >>
    /\ dirs = FirstRunDirs(files_to_process, photography_main, videography_main)
    /\ destfiles \in FirstRunFiles(files_to_process)
    /\ success_count = 0
    /\ skipped_files = << >>
    /\ source_readable = TRUE
    /\ event_writable = TRUE
    /\ exif = NoProbe
    /\ meta = PyNone

\* lines 254-279 of that run
NextRerun == Transfer

SpecRerun == InitRerun /\ [][NextRerun]_vars

---------------------------------------------------------------------------
\* Properties

StageOver == pc \in {"summary", "done"}
Planned == pc \in {"walk", "folders", "submit", "transfer", "summary", "done"}
Supported(t) == TargetFolder(t) # NoPath
Collected(t) == tfut[t].rec # "-"
Failed(t) == tfut[t].rec \in {"skipped", "except"}
\* the copy raised nothing and the target size read after it is the source's
CopiedAndVerified(t) == tfut[t].copied /\ tfut[t].seen = SourceSize(t)
Occurrences(seq, x) == Cardinality({i \in 1..Len(seq) : seq[i] = x})

\* C1: when the transfer stage is over, success_count + len(skipped_files)
\* is the number of submitted files; while it runs, the sum is the number
\* of futures collected so far
C1_EveryFileCountedOnce ==
    /\ success_count + Len(skipped_files)
         = Cardinality({t \in DOMAIN tfut : Collected(t)})
    /\ StageOver =>
         success_count + Len(skipped_files) = Cardinality(files_to_process)

\* C1 witness: the stage is over with a success and a raised task collected
C1_Witness ==
    /\ StageOver
    /\ \E t \in DOMAIN tfut : tfut[t].rec = "except"
    /\ \E t \in DOMAIN tfut : tfut[t].rec = "success"

\* C2 (as claimed): one probe has yielded the identity, every other probe
\* never completes; the resolver returns without waiting for them
C2_ReturnsWithoutWaiting ==
    ( /\ rpc = "join"
      /\ Cardinality({p \in DOMAIN pfut : pfut[p].st = "done"}) = 1
      /\ \E p \in DOMAIN pfut : pfut[p].st = "hung" )
    => ENABLED RJoin

\* C3: a failed file does not end the batch: when the stage is over every
\* submitted task has run to its end and been collected, and every task
\* whose own copy and verification were fine is counted as succeeded
C3_FailureDoesNotAbort ==
    StageOver =>
      \A t \in files_to_process :
        /\ tfut[t].st = "done"
        /\ Collected(t)
        /\ CopiedAndVerified(t) => tfut[t].rec = "success"

\* C3 witness: the stage is over, one file failed (copy error, mismatch or
\* raised task) and another one succeeded
C3_Witness ==
    /\ StageOver
    /\ \E t1, t2 \in DOMAIN tfut :
         /\ Failed(t1) /\ Supported(t1)
         /\ tfut[t2].rec = "success"

\* C4: a collected photo or video is recorded as succeeded iff its copy
\* raised nothing and the target size read after it equals the source size;
\* otherwise it is recorded as failed
C4_SuccessIffCopiedAndVerified ==
    \A t \in DOMAIN tfut :
      (Supported(t) /\ Collected(t)) =>
        /\ tfut[t].rec = "success" <=> CopiedAndVerified(t)
        /\ Failed(t) <=> ~CopiedAndVerified(t)

\* C4 witness: a file recorded as failed after a copy that raised nothing
\* and a file recorded as succeeded
C4_Witness ==
    \E t1, t2 \in DOMAIN tfut :
      /\ Failed(t1) /\ tfut[t1].copied /\ tfut[t1].seen # SourceSize(t1)
      /\ tfut[t2].rec = "success"

C6_FailedListExact ==
    StageOver =>
      \A f \in tree :
        Occurrences(skipped_files, f.name)
          = Cardinality({t \in DOMAIN tfut :
                           t.file_name = f.name /\ tfut[t].rec # "success"})

\* C7 (as claimed): a photo or video fails only through its own copy or
\* verification, whatever the other files of the batch are
C7_OutcomeIsOwn ==
    \A t \in DOMAIN tfut :
      (Supported(t) /\ tfut[t].st = "done") =>
        (tfut[t].res = Outcome(TRUE, t.file_name) <=> tfut[t].fault = "none")

\* C8 (as claimed): create_directory never raises, also when another worker
\* creates the same folder at the same time
C8_CreateDirectoryNeverRaises ==
    \A t \in DOMAIN tfut : tfut[t].res.kind # "raised"

\* C9 (as claimed): once the loop has seen a non-empty identity, no probe
\* that had not started is started
C9_NoStartAfterWinner ==
    [][Truthy(winner) =>
         \A p \in DOMAIN pfut :
           pfut[p].st = "pending" => pfut'[p].st \in {"pending", "cancelled"}]_vars

\* C9 (amended): once shutdown(cancel_futures=True) has drained the queue,
\* no probe that had not started is started, and the identity returned is
\* the one the loop saw
C9_NoStartAfterCancel ==
    [][(Truthy(winner) /\ rpc \in {"join", "returned"}) =>
         /\ \A p \in DOMAIN pfut :
              pfut[p].st \in {"pending", "cancelled"}
                => pfut'[p].st \in {"pending", "cancelled"}
         /\ (rpc = "join" /\ rpc' = "returned") => camera_model' = winner]_vars

\* C9 witness: the resolver has returned the identity with a probe cancelled
\* before it started
C9_Witness ==
    /\ rpc = "returned"
    /\ Truthy(winner) /\ camera_model = winner
    /\ \E p \in DOMAIN pfut : pfut[p].st = "cancelled"

PhotoRootOf(identity) ==
    Join(Join(event_folder, <<"Photography">>),
         FolderSuffix(identity.v, photographer_name))
VideoRootOf(identity) ==
    Join(Join(event_folder, <<"Videography">>),
         FolderSuffix(identity.v, photographer_name))

\* C10: the identity used for the folder suffix and for every transfer task
\* is the first non-empty identity the loop saw, whatever arrives later, and
\* it never changes
C10_IdentityIsWinner ==
    /\ [](Truthy(winner) =>
            /\ pc = "plan" => camera_model = winner
            /\ Planned =>
                 /\ camera_model = winner
                 /\ photography_main = PhotoRootOf(winner)
                 /\ videography_main = VideoRootOf(winner)
                 /\ \A t \in files_to_process :
                      /\ t.photography_main = PhotoRootOf(winner)
                      /\ t.videography_main = VideoRootOf(winner))
    /\ [][Truthy(winner) => winner' = winner]_vars
    /\ [][Planned => camera_model' = camera_model]_vars

\* C10 witness: another identity arrived after the winner was chosen, and a
\* transfer task built from the winner has started
C10_Witness ==
    /\ late
    /\ pc = "transfer"
    /\ \E t \in DOMAIN tfut :
         /\ tfut[t].st # "pending"
         /\ t.photography_main = PhotoRootOf(winner)

---------------------------------------------------------------------------
\* The two stages and the result of the race

Started(t) == tfut[t].st # "pending"
HasIdentity(res) == res.kind = "returned" /\ Truthy(res.value)

\* C11: whenever a transfer task has started, no probe of the race is
\* running
C11_StagesNeverOverlap ==
    (\E t \in DOMAIN tfut : Started(t)) => Busy(pfut) = {}

\* C11 witness: a transfer task is running after a race in which a probe
\* was still running when the loop saw the identity; shutdown waited for it
C11_Witness ==
    /\ \E t \in DOMAIN tfut : tfut[t].st = "running"
    /\ late
    /\ \A p \in DOMAIN pfut : pfut[p].st = "done"

\* every probe has completed, the results are at hand, and none is a
\* non-empty identity
AllDoneNoIdentity ==
    /\ DOMAIN pfut # {}
    /\ \A p \in DOMAIN pfut :
         /\ pfut[p].st = "done"
         /\ pfut[p].res.kind # "none"
         /\ ~HasIdentity(pfut[p].res)

\* C12 (as claimed): with no candidates the resolver returns None and no
\* probe was launched; when every probe has completed without an identity
\* the loop goes past them and returns None (it is never left another way);
\* after a race that found nothing the identity is the text the caller typed
C12_NotFoundThenManual ==
    /\ (photo_file_paths = {} /\ pc \notin {"dates", "gather", "race"}) =>
         /\ rpc = "returned"
         /\ pfut = << >>
         /\ pc = "plan" => camera_model = PyNone
    /\ AllDoneNoIdentity => rpc \in {"submitted", "loop"}
    /\ (Planned /\ ~Truthy(winner)) =>
         camera_model \in {PyStr(m) : m \in ManualModels}

\* the identity of the probe that completed first among those with one
FirstCompletedIdentity ==
    LET with == {i \in 1..Len(done_order) : HasIdentity(pfut[done_order[i]].res)}
        first == CHOOSE i \in with : \A j \in with : i <= j
    IN  pfut[done_order[first]].res.value

\* C13 (as claimed): the identity the loop takes is the one of the probe
\* that completed first in time
C13_FirstCompletedWins ==
    rpc \in {"shutdown", "join"} => model = FirstCompletedIdentity

\* q completed before w
CompletedBefore(q, w) ==
    \E i, j \in 1..Len(done_order) :
      i < j /\ done_order[i] = q /\ done_order[j] = w

\* C13 (amended): the identity the loop takes is the first one it observes;
\* a probe with an identity that completed before the observed one had, like
\* the observed one, already completed when as_completed was called
C13_FirstObservedWins ==
    rpc \in {"shutdown", "join"} =>
      /\ model = winner
      /\ \E w \in yielded :
           /\ HasIdentity(pfut[w].res)
           /\ model = pfut[w].res.value
           /\ \A q \in DOMAIN pfut :
                (HasIdentity(pfut[q].res) /\ CompletedBefore(q, w))
                  => {q, w} \subseteq ac_snapshot

\* C13 witness: two probes completed with different identities after
\* as_completed was called, and the loop took the one that completed first
C13_Witness ==
    /\ rpc = "join"
    /\ ac_snapshot = {}
    /\ \E q, w \in DOMAIN pfut :
         /\ HasIdentity(pfut[q].res) /\ HasIdentity(pfut[w].res)
         /\ pfut[q].res.value # pfut[w].res.value
         /\ CompletedBefore(w, q)
         /\ model = pfut[w].res.value

\* C14 (as claimed): no probe raises, whatever the extractor does, and the
\* race is never left by an exception
C14_ProbeNeverRaises ==
    /\ \A p \in DOMAIN pfut : pfut[p].res.kind # "raised"
    /\ rpc \notin {"unwind", "raised"}
    /\ pc # "crashed"

---------------------------------------------------------------------------
\* The date filter

Walked == pc \in {"folders", "submit", "transfer", "summary", "done"}
NotHidden == {f \in tree : ~Hidden(f.name)}
\* the date prompt got a text and line 177 gave no window
ParseFailed == date_input # <<>> /\ pc # "dates" /\ ~use_date_filter

\* C15: the date line 225 uses for a file is the capture timestamp the probe
\* returned, and the modification time when it returned none; under a filter
\* every file that is not hidden gets a date, a file without a timestamp
\* whose modification time is in the window is submitted, and the walk never
\* ends the run
C15_CaptureDateElseMtime ==
    /\ \A f \in DOMAIN dated :
         /\ dated[f].used = IF Truthy(dated[f].probe)
                            THEN PyDate(dated[f].probe.day)
                            ELSE PyDate(f.mtime)
         /\ (~Truthy(dated[f].probe)
               /\ InWindow(start_date, PyDate(f.mtime), end_date))
              => Task(f) \in files_to_process
    /\ (use_date_filter /\ Walked) => DOMAIN dated = NotHidden
    /\ pc = "crashed" => rpc = "raised"

\* C15 witness: after the walk, a photo dated by a capture timestamp that is
\* not its modification time, and a photo whose probe returned no timestamp,
\* dated by its modification time and submitted
C15_Witness ==
    /\ Walked
    /\ \E f, g \in DOMAIN dated :
         /\ Truthy(dated[f].probe) /\ dated[f].used # PyDate(f.mtime)
         /\ ExtOf(g.name) \in photo_extensions
         /\ ~Truthy(dated[g].probe)
         /\ Task(g) \in files_to_process

\* the parts of a date text: what stands between its dashes (ASCII hyphen,
\* en dash, em dash), without the spaces around
DashParts(text) ==
    LET parts == Split(Replace(Replace(text, EnDash, "-"), EmDash, "-"), <<"-">>)
    IN  [i \in 1..Len(parts) |-> Strip(parts[i])]
IsDate(text) == StrptimeDate(text).kind = "returned"

\* C16 (as claimed): two valid dates around a hyphen, an en dash or an em
\* dash, with or without spaces, give the window (first, second); one valid
\* date gives start = end
C16_AcceptsEveryDash ==
    pc # "dates" =>
      LET parts == DashParts(date_input)
      IN  /\ (Len(parts) = 2 /\ IsDate(parts[1]) /\ IsDate(parts[2])) =>
               /\ start_date = StrptimeDate(parts[1]).value
               /\ end_date = StrptimeDate(parts[2]).value
          /\ (Len(parts) = 1 /\ IsDate(parts[1])) =>
               /\ start_date = StrptimeDate(parts[1]).value
               /\ end_date = start_date

\* C17 (as claimed): a window the run filters with has start <= end
C17_WindowIsOrdered ==
    use_date_filter => DateLE(start_date, end_date)

\* C18: a text of more than two parts, or with a part that is no valid
\* DD/MM/YYYY date, gives no window; start and end are both there or both
\* None
C18_ErrorNeverPartial ==
    /\ pc # "dates" =>
         LET parts == DashParts(date_input)
         IN  (Len(parts) > 2 \/ \E i \in 1..Len(parts) : ~IsDate(parts[i])) =>
               /\ start_date = PyNone /\ end_date = PyNone
               /\ ~use_date_filter
    /\ start_date = PyNone <=> end_date = PyNone

\* C18 witness: a range with a valid first date and a second part that is
\* no date was parsed, and there is no window
C18_Witness ==
    /\ pc # "dates"
    /\ Len(DashParts(date_input)) = 2
    /\ IsDate(DashParts(date_input)[1])
    /\ ~IsDate(DashParts(date_input)[2])
    /\ start_date = PyNone /\ end_date = PyNone

\* C19 (as claimed): after a text that failed to parse the run waits for the
\* caller's decision; main has no step that takes one, so it does not go on
\* to the first walk
C19_WaitsForDecision ==
    ParseFailed => pc = "gather"

\* C19 (amended): after a text that failed to parse the run goes on without
\* a filter: no window, no file date looked at, every file that is not
\* hidden submitted, and the failure does not end the run
C19_GoesOnUnfiltered ==
    ParseFailed =>
      /\ start_date = PyNone /\ end_date = PyNone
      /\ dated = << >>
      /\ Walked => files_to_process = {Task(f) : f \in NotHidden}
      /\ pc = "transfer" => DOMAIN tfut = {Task(f) : f \in NotHidden}
      /\ pc = "crashed" => rpc = "raised"

\* C19 witness: the text failed to parse and two files were submitted
C19_Witness ==
    /\ ParseFailed
    /\ pc = "transfer"
    /\ Cardinality(DOMAIN tfut) = 2

\* C20: under a filter the files submitted are the files that are not hidden
\* and whose date is in the window, both ends included; with the prompt left
\* empty every file that is not hidden is submitted
C20_SubmittedIffInWindow ==
    Walked =>
      /\ use_date_filter =>
           files_to_process =
             {Task(f) : f \in {g \in NotHidden :
                /\ DateLE(start_date, dated[g].used)
                /\ DateLE(dated[g].used, end_date)}}
      /\ date_input = <<>> => files_to_process = {Task(f) : f \in NotHidden}
      /\ pc = "transfer" => DOMAIN tfut = files_to_process

\* C20 witness: under a window of several days, a file dated on the last
\* day was submitted and a file dated outside was not
C20_Witness ==
    /\ pc = "transfer"
    /\ use_date_filter /\ start_date # end_date
    /\ \E f, g \in NotHidden :
         /\ dated[f].used = end_date /\ Task(f) \in DOMAIN tfut
         /\ ~DateLE(dated[g].used, end_date) /\ Task(g) \notin DOMAIN tfut

---------------------------------------------------------------------------
\* The second run

\* C21 (as claimed): when the second run's transfer stage is over and no
\* copy of it was disturbed, every photo and video succeeded and the event
\* folder is as the first run left it
C21_RerunSucceeds ==
    (StageOver /\ \A t \in DOMAIN tfut : tfut[t].fault \in {"none", "-"}) =>
      /\ \A t \in Transferable(DOMAIN tfut) : tfut[t].rec = "success"
      /\ dirs = FirstRunDirs(files_to_process, photography_main, videography_main)
      /\ destfiles \in FirstRunFiles(files_to_process)

---------------------------------------------------------------------------
\* Classification and the folders of the event root

\* what a file name is, by its extension in lower case
ClassOfText(name) ==
    LET e == Lower(SplitExt(name))
    IN  IF e \in photo_extensions THEN "photo"
        ELSE IF e \in video_extensions THEN "video"
        ELSE "unsupported"

\* the names the properties classify
ClassifiedNames ==
    {f.name : f \in Catalogue}
      \cup {<<"x", ".", "C", "R", "2">>, <<"x", ".", "c", "r", "2">>,
            <<"x", ".", "t", "x", "t">>}

\* their classes and the names of their extension folders, as tables
ClassTable == [n \in ClassifiedNames |-> ClassOfText(n)]
FolderTable == [n \in ClassifiedNames |-> Upper(Tail(Lower(SplitExt(n))))]

ClassOf(name) == ClassTable[name]

GraphicsFolder == Join(event_folder, <<"Graphics">>)

\* where the file of a photo or video task belongs: the root of its class,
\* the folder named by its extension in upper case, its own name
ExpectedFolder(t) ==
    LET root == IF ClassOf(t.file_name) = "photo" THEN photography_main
                                                  ELSE videography_main
    IN  Append(root, FolderTable[t.file_name])
ExpectedPath(t) == Append(ExpectedFolder(t), t.file_name)
IsPrefix(d, path) == Len(d) <= Len(path) /\ SubSeq(path, 1, Len(d)) = d

\* C22: a submitted file that is neither photo nor video runs no directory
\* or copy step and is collected as a failure; every directory of the event
\* root is the root itself, Graphics, one of the three folders main adds
\* for a batch with a video, or leads to the folder of a photo or video of
\* the batch; every file in it is the target of a photo or video task; a
\* batch of unsupported files alone leaves the event root with Graphics only
C22_UnsupportedLeavesNoTrace ==
    /\ \A t \in DOMAIN tfut :
         ClassOf(t.file_name) = "unsupported" =>
           /\ tfut[t].st \in {"pending", "done"}
           /\ tfut[t].at = "-" /\ ~tfut[t].copied
           /\ tfut[t].st = "done" => tfut[t].res = Outcome(FALSE, t.file_name)
           /\ Collected(t) => tfut[t].rec = "skipped"
    /\ LET supported == {t \in files_to_process :
                             ClassOf(t.file_name) # "unsupported"}
           added == IF \E t \in supported : ClassOf(t.file_name) = "video"
                    THEN {Join(Join(event_folder, <<"Videography">>), x) :
                            x \in { <<"EXPORT">>, <<"Project Files">>,
                                    <<"VFX + SFX Folder">> }}
                    ELSE {}
           folders == {ExpectedFolder(t) : t \in supported}
           paths == {ExpectedPath(t) : t \in supported \cap DOMAIN tfut}
       IN  /\ \A d \in dirs \ ({event_folder, GraphicsFolder} \cup added) :
                 \E f \in folders : IsPrefix(d, f)
           /\ DOMAIN destfiles \subseteq paths
    /\ (pc \in {"transfer", "summary", "done"}
          /\ \A t \in files_to_process : ClassOf(t.file_name) = "unsupported")
         => dirs = {event_folder, GraphicsFolder} /\ destfiles = << >>

\* C22 witness: the stage is over, an unsupported file is in skipped_files
\* and a photo or video of the same batch was copied
C22_Witness ==
    /\ StageOver
    /\ \E t, u \in DOMAIN tfut :
         /\ ClassOf(t.file_name) = "unsupported"
         /\ tfut[t].rec = "skipped"
         /\ Occurrences(skipped_files, t.file_name) = 1
         /\ tfut[u].rec = "success"

\* C23 (as claimed): the identity the suffix is built from is a text that
\* is not empty and has no space at either end
C23_IdentityTrimmedNonEmpty ==
    Planned =>
      /\ camera_model.t = "str"
      /\ camera_model.v # <<>>
      /\ Strip(camera_model.v) = camera_model.v

\* C24: from planning on, Graphics exists under the event root
C24_GraphicsAlwaysThere ==
    Planned => GraphicsFolder \in dirs

\* C24 witness: the run is over, files were submitted, none succeeded, and
\* Graphics is there
C24_Witness ==
    /\ pc = "done"
    /\ files_to_process # {}
    /\ success_count = 0
    /\ GraphicsFolder \in dirs

\* C27: the suffix is identity, "_", user name, with "_" for every space;
\* both roots, and the roots of every task, are built from it
C27_SuffixOfIdentityAndName ==
    /\ FolderSuffix(<<"E", "O", "S", " ", "R", "5">>,
                    <<"J", "a", "n", "e", " ", "D", "o", "e">>)
         = <<"E", "O", "S", "_", "R", "5", "_",
             "J", "a", "n", "e", "_", "D", "o", "e">>
    /\ Planned =>
         LET joined == camera_model.v \o <<"_">> \o photographer_name
             suffix == photography_main[Len(photography_main)]
         IN  /\ Len(suffix) = Len(joined)
             /\ \A i \in 1..Len(joined) :
                  suffix[i] = IF joined[i] = " " THEN "_" ELSE joined[i]
             /\ photography_main = event_folder \o << <<"Photography">>, suffix >>
             /\ videography_main = event_folder \o << <<"Videography">>, suffix >>
             /\ \A t \in files_to_process \cup DOMAIN tfut :
                  /\ t.photography_main = photography_main
                  /\ t.videography_main = videography_main

\* C27 witness: tasks were submitted under an identity with a space in it
C27_Witness ==
    /\ pc = "transfer"
    /\ Contains(camera_model.v, " ")
    /\ Contains(photographer_name, " ")
    /\ DOMAIN tfut # {}

\* C28: a file whose name starts with "." or "_" is no candidate of the
\* race, gets no date and is no task
C28_HiddenNeverSeen ==
    \A f \in tree :
      (f.name[1] = "." \/ f.name[1] = "_") =>
        /\ f \notin photo_file_paths
        /\ f \notin DOMAIN pfut
        /\ f \notin DOMAIN dated
        /\ \A t \in files_to_process \cup DOMAIN tfut :
             ~(t.root = f.root /\ t.file_name = f.name)

\* C28 witness: under a date filter the tasks of a tree that holds a hidden
\* photo were submitted, after a race and the dating of another file
C28_Witness ==
    /\ pc = "transfer"
    /\ use_date_filter
    /\ \E f \in tree : f.name[1] = "." /\ ClassOf(f.name) = "photo"
    /\ DOMAIN pfut # {}
    /\ DOMAIN dated # {}
    /\ DOMAIN tfut # {}

\* C29: upper and lower case extensions classify alike; a task ends without
\* a copy being tried exactly when its file is neither photo nor video; a
\* copied file is at root-by-class/EXTENSION/name, and nothing is anywhere
\* else
C29_ClassAndPlaceByExtension ==
    /\ ClassOf(<<"x", ".", "C", "R", "2">>) = "photo"
    /\ ClassOf(<<"x", ".", "c", "r", "2">>) = "photo"
    /\ ClassOf(<<"x", ".", "t", "x", "t">>) = "unsupported"
    /\ \A t \in DOMAIN tfut :
         /\ (tfut[t].st = "done" /\ tfut[t].fault = "-"
               /\ tfut[t].res.kind = "returned")
              <=> (tfut[t].st = "done" /\ ClassOf(t.file_name) = "unsupported")
         /\ (tfut[t].copied \/ tfut[t].rec = "success") =>
              /\ ClassOf(t.file_name) # "unsupported"
              /\ ExpectedPath(t) \in DOMAIN destfiles
    /\ DOMAIN destfiles \subseteq
         {ExpectedPath(t) : t \in {u \in DOMAIN tfut :
                                     ClassOf(u.file_name) # "unsupported"}}

\* C29 witness: a photo with an upper case extension and a video both
\* succeeded
C29_Witness ==
    \E t, u \in DOMAIN tfut :
      /\ SplitExt(t.file_name) = <<".", "J", "P", "G">>
      /\ tfut[t].rec = "success"
      /\ ClassOf(u.file_name) = "video"
      /\ tfut[u].rec = "success"

\* the files that are not hidden and pass line 226, once the walk is over
Survivors ==
    {f \in NotHidden :
       use_date_filter => InWindow(start_date, dated[f].used, end_date)}
FoldersDone == pc \in {"submit", "transfer", "summary", "done"}
AuxiliaryFolders ==
    {Join(Join(event_folder, <<"Videography">>), x) :
       x \in { <<"EXPORT">>, <<"Project Files">>, <<"VFX + SFX Folder">> }}

\* C25: each of EXPORT, Project Files and VFX + SFX Folder exists under
\* Videography exactly when lines 237-245 have run with a video among the
\* files that passed the filter; the transfer stage changes none of them
C25_AuxiliaryIffVideoPlanned ==
    \A a \in AuxiliaryFolders :
      a \in dirs <=>
        (FoldersDone /\ \E f \in Survivors :
                          /\ ClassOf(f.name) = "video"
                          /\ Task(f) \in files_to_process)

\* C25 witness: the run is over under a date filter that a file of the tree
\* did not pass, a video passed it, and the three folders are there
C25_Witness ==
    /\ pc = "done"
    /\ use_date_filter
    /\ NotHidden \ Survivors # {}
    /\ AuxiliaryFolders \subseteq dirs

PhotoRootThere ==
    /\ photography_main # NoPath
    /\ \E d \in dirs : IsPrefix(photography_main, d)

\* C26: the photo root, or anything below it, exists only after lines
\* 237-245 have run with a photo among the files that passed the filter
C26_PhotoRootOnlyWithPhoto ==
    PhotoRootThere =>
      (FoldersDone /\ \E f \in Survivors :
                        /\ ClassOf(f.name) = "photo"
                        /\ Task(f) \in files_to_process)

\* C26 witness: the run is over, a photo of the tree did not pass the
\* filter, another file was transferred, and there is no photo root
C26_Witness ==
    /\ pc = "done"
    /\ use_date_filter
    /\ \E f \in NotHidden \ Survivors : ClassOf(f.name) = "photo"
    /\ success_count >= 1
    /\ ~PhotoRootThere

\* C30 (as claimed): no step of a run changes a file of the source tree
C30_SourceUntouched ==
    [][tree' = tree]_vars

---------------------------------------------------------------------------
\* Fatal conditions, the end of the stage, the pools

UnusableRoot == ~source_readable \/ ~event_writable

\* C31 (as claimed): with a source folder that cannot be listed or an event
\* folder that cannot be written, the run never gets to its summary
C31_UnusableRootEndsRun ==
    UnusableRoot => ~StageOver

\* C32: when the summary is reported every submitted task has a future
\* that is done, no worker is at a makedirs, copy or verify step, and every
\* outcome has been recorded by main's loop
C32_SummaryAfterAllFinished ==
    StageOver =>
      /\ DOMAIN tfut = files_to_process
      /\ Busy(tfut) = {} /\ Unfinished(tfut) = {}
      /\ \A t \in DOMAIN tfut : tfut[t].at = "-" /\ Collected(t)

\* C32 witness: the summary was reported after two tasks, one of them
\* copied and verified, the other one failed after its copy
C32_Witness ==
    /\ pc = "done"
    /\ \E t, u \in DOMAIN tfut :
         /\ t # u
         /\ tfut[t].copied /\ tfut[t].rec = "success"
         /\ tfut[u].copied /\ tfut[u].rec = "skipped"

C34_BadTimestampKeepsIdentity ==
    (/\ pc = "probed"
     /\ exif.kind = "ok"
     /\ Truthy(exif.Model)
     /\ Truthy(exif.DateTimeOriginal)
     /\ exif.DateTimeOriginal.t = "str"
     /\ exif.DateTimeOriginal.layout = "other")
      => meta = [t |-> "dict", model |-> exif.Model,
                 datetime_original |-> PyNone]

\* C34 witness: the probe has returned the model X without a timestamp for
\* a timestamp text of another layout
C34_Witness ==
    /\ pc = "probed"
    /\ exif.kind = "ok"
    /\ exif.Model = PyStr(<<"X">>)
    /\ exif.DateTimeOriginal = PyDateText("other", CaptureDay)
    /\ Truthy(meta)
    /\ meta.model = PyStr(<<"X">>)
    /\ meta.datetime_original = PyNone

\* C35 (as claimed): when the stage is over, every file counted as
\* succeeded has at its destination path a copy of the size of its source
C35_SucceededIsAtDestination ==
    StageOver =>
      \A t \in DOMAIN tfut :
        tfut[t].rec = "success" =>
          /\ TargetFilePath(t) \in DOMAIN destfiles
          /\ destfiles[TargetFilePath(t)] = SourceSize(t)

---------------------------------------------------------------------------
\* Termination

\* no call of the extractor stays out for ever
NoProbeHangs == \A p \in DOMAIN pfut : pfut[p].st # "hung"

\* C36 (as claimed): when no probe hangs the run gets to the end of its
\* summary
C36_RunTerminates ==
    ([]NoProbeHangs) => <>(pc = "done")

---------------------------------------------------------------------------
\* The candidates of the race and the date window

\* C37: with or without a window, the candidates of the race are all the
\* photos of the source tree that are not hidden, and each of them gets a
\* probe; the window decides only which files become tasks; the identity
\* the race found is the one of the folders
C37_CandidatesIgnoreWindow ==
    /\ pc \notin {"dates", "gather"} =>
         photo_file_paths = {f \in NotHidden : ClassOf(f.name) = "photo"}
    /\ rpc \notin {"idle", "entry"} /\ photo_file_paths # {} =>
         DOMAIN pfut = photo_file_paths
    /\ Walked => files_to_process = {Task(f) : f \in Survivors}
    /\ (Walked /\ Truthy(winner)) =>
         /\ camera_model = winner
         /\ photography_main = PhotoRootOf(winner)

\* C37 witness: under a window the folders carry the identity found in a
\* photo, and the batch to transfer holds a video and no photo
C37_Witness ==
    /\ FoldersDone
    /\ use_date_filter
    /\ Truthy(winner) /\ camera_model = winner
    /\ photo_file_paths # {}
    /\ files_to_process # {}
    /\ \A t \in files_to_process : ClassOf(t.file_name) # "photo"
    /\ VideoRootOf(winner) \in dirs

====
